---- MODULE Spec2Model ----
(***************************************************************************)
(* A model of the PDF merger of src/main.py: one run of merge_pdfs() from  *)
(* the discovery of the candidates (find_and_validate_pdf_files) through   *)
(* the ordering, the merge loop of merge_pdf_files, the write of the       *)
(* output and the summary, followed by a second run over the same          *)
(* directories.  The PDF codec (PyPDF2) is modelled by what the program    *)
(* observes of it: whether a file opens, how many pages it has, and        *)
(* whether reading or adding one of its pages raises.  The file system is  *)
(* shared with the rest of the machine, so between two steps of the        *)
(* program an input file may be removed or replaced.                       *)
(***************************************************************************)
EXTENDS Integers, Sequences, FiniteSets, TLC

\* ------------------------------------------------------------------ bounds
MaxPages == 2        \* largest page count of an input document
MaxEnvChanges == 1   \* external modifications of the input directory
MaxClock == 3        \* wall clock range, in half seconds
MaxSortLen == 3      \* longest list the ordering policy is exercised on

\* ------------------------------------------------------------- file names
\* A file name is the tuple of its character codes.
DotPdf == <<46, 112, 100, 102>>
UpperB == <<66>> \o DotPdf
LowerA == <<97>> \o DotPdf
UpperA == <<65>> \o DotPdf
UpperC == <<67>> \o DotPdf
LowerAB == <<97, 98>> \o DotPdf
LowerADash == <<97, 45>> \o DotPdf

\* The names of the files of the input directory in the runs of the program.
Names == {UpperB, LowerA, UpperA}

\* The names the ordering policy is exercised on.
SortNames == {UpperB, LowerA, UpperA, UpperC, LowerAB, LowerADash}

\* ------------------------------------------------------------- the files
\* What the program can observe of a file: os.path existence, os.access
\* R_OK, st_size, whether PdfReader opens it, len(reader.pages), and the
\* first page whose read or add raises (0: none).
File(e, r, s, p, n, b) ==
    [exists |-> e, readable |-> r, size |-> s, parsable |-> p, pages |-> n, bad |-> b]

Missing == File(FALSE, FALSE, 0, FALSE, 0, 0)
Unreadable == File(TRUE, FALSE, 1, TRUE, 1, 0)
Empty == File(TRUE, TRUE, 0, FALSE, 0, 0)
Corrupt == File(TRUE, TRUE, 1, FALSE, 0, 0)
Doc(n, b) == File(TRUE, TRUE, n + 1, TRUE, n, b)
ZeroPage == Doc(0, 0)

\* The documents of the initial directory: every page is good, or the last
\* page is the one that raises.
Docs == UNION {{Doc(n, 0), Doc(n, n)} : n \in 1..MaxPages}
InitKinds == {Unreadable, Empty, Corrupt, ZeroPage} \cup Docs
EnvKinds == {Missing, ZeroPage}

\* ---------------------------------------------------------- sequence help
Range(s) == {s[k] : k \in 1..Len(s)}

RECURSIVE SumSeq(_)
SumSeq(s) == IF s = <<>> THEN 0 ELSE Head(s) + SumSeq(Tail(s))

IsInjective(s) == \A a, b \in 1..Len(s) : s[a] = s[b] => a = b

Perms(S) == {s \in [1..Cardinality(S) -> S] : IsInjective(s)}

\* ------------------------------------------------------- ordering policy
\* str.lower() on one character code: the ASCII upper-case letters move to
\* their lower-case codes, every other code is left alone.
Lower(c) == IF c \in 65..90 THEN c + 32 ELSE c

LowerName(name) == [k \in 1..Len(name) |-> Lower(name[k])]

\* Python's order on strings: by the first differing code, a proper prefix
\* before the longer string.
StrLess(s, t) ==
    \E k \in 1..(Len(s) + 1) :
        /\ k <= Len(t) + 1
        /\ \A j \in 1..(k - 1) : s[j] = t[j]
        /\ \/ k = Len(s) + 1 /\ k <= Len(t)
           \/ k <= Len(s) /\ k <= Len(t) /\ s[k] < t[k]

\* key=lambda x: x.name.lower()
SortKeyPlain(name) == name
SortKey(name) == LowerName(name)

\* sorted() is stable: an element goes behind every element already placed
\* whose key is not greater than its own.
RECURSIVE InsertByKey(_, _)
InsertByKey(x, s) ==
    IF s = <<>> THEN <<x>>
    ELSE IF StrLess(SortKey(x), SortKey(Head(s))) THEN <<x>> \o s
    ELSE <<Head(s)>> \o InsertByKey(x, Tail(s))

RECURSIVE SortedFrom(_, _)
SortedFrom(todo, done) ==
    IF todo = <<>> THEN done
    ELSE SortedFrom(Tail(todo), InsertByKey(Head(todo), done))

sort_files_by_preference(files) == SortedFrom(files, <<>>)

\* --------------------------------------------------------- output names
\* time.strftime("%Y%m%d_%H%M%S"): the wall clock cut to whole seconds,
\* written as a digit.  The clock counts half seconds.
Timestamp(t) == t \div 2

\* f"merged_pdf_{timestamp}.pdf"
OutputNameFixed(ts) == <<109>> \o <<48>> \o DotPdf
OutputName(ts) == <<109>> \o <<48 + ts>> \o DotPdf

\* output_dir / single_file.name
CopyTarget(name) == name

\* ------------------------------------------------------------- the state
VARIABLES
    input,           \* the input directory: file name -> File
    dir_order,       \* the order in which the directory enumerates its entries
    output,          \* the output directory: file name -> content
    output_at_start, \* the output directory when the run began its discovery
    clock,           \* the wall clock, in half seconds
    env_changes,     \* external modifications of the input directory so far
    run,             \* "first" or "second" run of the program
    prev,            \* what the first run left: its result and output name
    pc,              \* the position of the run
    i,               \* index of the loop in progress (1-based)
    pdf_files,       \* find_and_validate_pdf_files: the glob result
    valid_files,     \* find_and_validate_pdf_files: valid_files
    sorted_files,    \* merge_pdfs: sorted_files
    timestamp,       \* get_output_filename: timestamp
    output_filename, \* merge_pdfs: output_filename
    writer,          \* merge_pdf_files: the pages added to the PdfWriter
    page_count,      \* merge_pdf_files: page_count of the open reader
    total_pages,     \* merge_pdf_files: total_pages
    file_info,       \* merge_pdf_files: file_info
    processed,       \* the "[i/n] Processing" log lines, in order
    failed,          \* the "Failed to process" log lines: <<name, stage>>
    result,          \* the Merge Result, NoResult when none was produced
    summary,         \* whether print_merge_summary ran
    outcome          \* how the run ended

vars == <<input, dir_order, output, output_at_start, clock, env_changes, run,
          prev, pc, i, pdf_files, valid_files, sorted_files, timestamp,
          output_filename, writer, page_count, total_pages, file_info, processed, failed,
          result, summary, outcome>>

fsVars == <<input, dir_order, clock, env_changes>>
mergeVars == <<writer, page_count, total_pages, file_info, processed, failed>>

EmptyDir == [n \in {} |-> Missing]
NoResult == [none |-> TRUE]
NoName == <<>>
IsSuccess(r) == r # NoResult /\ r.success

\* Path.glob("*.pdf"): the entries that exist, in enumeration order.
Glob == SelectSeq(dir_order, LAMBDA n : input[n].exists)

\* PdfReader(path) followed by len(reader.pages) succeeds.
CanOpen(f) == f.exists /\ f.readable /\ f.parsable

\* The state of a run that has not begun.
FreshRun ==
    /\ pc = "start"
    /\ i = 0
    /\ pdf_files = <<>>
    /\ valid_files = <<>>
    /\ sorted_files = <<>>
    /\ timestamp = 0
    /\ output_filename = NoName
    /\ writer = <<>>
    /\ page_count = 0
    /\ total_pages = 0
    /\ file_info = <<>>
    /\ processed = <<>>
    /\ failed = <<>>
    /\ result = NoResult
    /\ summary = FALSE
    /\ outcome = "running"

Init ==
    /\ \E S \in SUBSET Names :
         /\ dir_order \in Perms(S)
         /\ \E kinds \in [S -> InitKinds] :
              input = [n \in Names |-> IF n \in S THEN kinds[n] ELSE Missing]
    /\ output = EmptyDir
    /\ output_at_start = EmptyDir
    /\ clock = 0
    /\ env_changes = 0
    /\ run = "first"
    /\ prev = [result |-> NoResult, timestamp |-> 0, output_filename |-> NoName]
    /\ FreshRun

\* ---------------------------------------------------------- environment
\* The file the program reads next; NoName when its next step reads none.
NextRead ==
    IF pc \in {"v_exists", "v_access", "v_stat", "v_open"} THEN pdf_files[i]
    ELSE IF pc = "copy" THEN valid_files[1]
    ELSE IF pc \in {"m_open", "m_record"} THEN sorted_files[i]
    ELSE NoName

\* Another process removes or replaces an input file.  A modification is
\* observed by the program at its next read of that file only, so it is
\* taken right before that read.  The second run is the rerun on an
\* unchanged input set, so modifications belong to the first run.
EnvChange ==
    /\ run = "first"
    /\ env_changes < MaxEnvChanges
    /\ NextRead # NoName
    /\ \E k \in EnvKinds :
         /\ input[NextRead] # k
         /\ input' = [input EXCEPT ![NextRead] = k]
    /\ env_changes' = env_changes + 1
    /\ UNCHANGED <<dir_order, output, output_at_start, clock, run, prev, pc, i,
                   pdf_files, valid_files, sorted_files, timestamp, output_filename,
                   result, summary, outcome>>
    /\ UNCHANGED mergeVars

\* Time passes.  The clock is read by get_output_filename only, so it
\* advances right before that read.
Tick ==
    /\ pc = "filename"
    /\ clock < MaxClock
    /\ clock' = clock + 1
    /\ UNCHANGED <<input, dir_order, output, output_at_start, env_changes, run,
                   prev, pc, i, pdf_files, valid_files, sorted_files,
                   timestamp, output_filename, result, summary, outcome>>
    /\ UNCHANGED mergeVars

\* -------------------------------------------- find_and_validate_pdf_files
\* The run ends: nothing but the outcome and the position change.
Finish(how) ==
    /\ pc' = "done"
    /\ outcome' = how

\* continue: on to the next candidate, or return valid_files after the last.
NextCandidate ==
    IF i < Len(pdf_files)
    THEN pc' = "v_exists" /\ i' = i + 1
    ELSE pc' = "dispatch" /\ i' = 0

\* Lines 86-93: the glob; an empty listing returns [] at once.
StartDiscovery ==
    /\ pc = "start"
    /\ pdf_files' = Glob
    /\ output_at_start' = output
    /\ IF Glob = <<>>
       THEN pc' = "dispatch" /\ i' = 0
       ELSE pc' = "v_exists" /\ i' = 1
    /\ UNCHANGED <<output, run, prev, valid_files, sorted_files,
                   timestamp, output_filename, result, summary, outcome>>
    /\ UNCHANGED fsVars
    /\ UNCHANGED mergeVars

\* Lines 101-103: pdf_file.exists().
ValidateExists ==
    /\ pc = "v_exists"
    /\ IF input[pdf_files[i]].exists
       THEN pc' = "v_access" /\ i' = i
       ELSE NextCandidate
    /\ UNCHANGED <<output, output_at_start, run, prev, pdf_files, valid_files,
                   sorted_files, timestamp, output_filename, result, summary, outcome>>
    /\ UNCHANGED fsVars
    /\ UNCHANGED mergeVars

\* Lines 105-107: os.access(pdf_file, os.R_OK), False for a missing file.
ValidateAccess ==
    /\ pc = "v_access"
    /\ IF input[pdf_files[i]].exists /\ input[pdf_files[i]].readable
       THEN pc' = "v_stat" /\ i' = i
       ELSE NextCandidate
    /\ UNCHANGED <<output, output_at_start, run, prev, pdf_files, valid_files,
                   sorted_files, timestamp, output_filename, result, summary, outcome>>
    /\ UNCHANGED fsVars
    /\ UNCHANGED mergeVars

\* Lines 110-115: pdf_file.stat().st_size, outside any try block: on a file
\* that is gone the FileNotFoundError leaves find_and_validate_pdf_files and
\* merge_pdfs and is reported by the handler of lines 348-350.
StatRaises(f) == ~f.exists

ValidateSize ==
    /\ pc = "v_stat"
    /\ IF StatRaises(input[pdf_files[i]])
       THEN Finish("crashed") /\ i' = i
       ELSE /\ outcome' = outcome
            /\ IF input[pdf_files[i]].size = 0
               THEN NextCandidate
               ELSE pc' = "v_open" /\ i' = i
    /\ UNCHANGED <<output, output_at_start, run, prev, pdf_files, valid_files,
                   sorted_files, timestamp, output_filename, result, summary>>
    /\ UNCHANGED fsVars
    /\ UNCHANGED mergeVars

\* Lines 118-132: PdfReader and len(reader.pages) under try/except; a file
\* that does not open or has no page is skipped.
PassesValidation(f) == CanOpen(f) /\ f.pages # 0

ValidateOpen ==
    /\ pc = "v_open"
    /\ valid_files' = IF PassesValidation(input[pdf_files[i]])
                      THEN Append(valid_files, pdf_files[i])
                      ELSE valid_files
    /\ NextCandidate
    /\ UNCHANGED <<output, output_at_start, run, prev, pdf_files,
                   sorted_files, timestamp, output_filename, result, summary, outcome>>
    /\ UNCHANGED fsVars
    /\ UNCHANGED mergeVars

\* ------------------------------------------------------------- merge_pdfs
\* Lines 282-305: no valid file aborts, a single one is copied, two or
\* more go on to the ordering.
BranchNoAbort(files) == IF Len(files) = 1 THEN "copy" ELSE "sort"
BranchNoCopy(files) == IF files = <<>> THEN "abort" ELSE "sort"
Branch(files) ==
    IF files = <<>> THEN "abort"
    ELSE IF Len(files) < 2 THEN "copy"
    ELSE "sort"

\* Lines 282-285.
AbortNoValid ==
    /\ pc = "dispatch"
    /\ Branch(valid_files) = "abort"
    /\ Finish("no_valid")
    /\ UNCHANGED <<output, output_at_start, run, prev, i, pdf_files,
                   valid_files, sorted_files, timestamp, output_filename, result, summary>>
    /\ UNCHANGED fsVars
    /\ UNCHANGED mergeVars

\* Lines 287-291: the single-file branch is taken.
ChooseCopy ==
    /\ pc = "dispatch"
    /\ Branch(valid_files) = "copy"
    /\ pc' = "copy"
    /\ UNCHANGED <<output, output_at_start, run, prev, i, pdf_files,
                   valid_files, sorted_files, timestamp, output_filename, result, summary,
                   outcome>>
    /\ UNCHANGED fsVars
    /\ UNCHANGED mergeVars

Copied(f) == [kind |-> "copy", data |-> f]
Truncated == [kind |-> "truncated"]
Merged(pages) == [kind |-> "merged", pages |-> pages]

\* Lines 292-302: shutil.copy2 under try/except.  It raises when the source
\* cannot be read (nothing is written) or when the destination cannot be
\* written (a truncated file may be left); the error is logged and the run
\* ends either way.
CopySingle ==
    /\ pc = "copy"
    /\ LET single_file == valid_files[1]
           target == CopyTarget(single_file)
           src == input[single_file]
       IN  \/ /\ src.exists /\ src.readable
              /\ output' = (target :> Copied(src)) @@ output
              /\ Finish("copied")
           \/ /\ ~(src.exists /\ src.readable)
              /\ output' = output
              /\ Finish("copy_failed")
           \/ /\ src.exists /\ src.readable
              /\ \E left \in BOOLEAN :
                   output' = IF left THEN (target :> Truncated) @@ output
                             ELSE output
              /\ Finish("copy_failed")
    /\ UNCHANGED <<output_at_start, run, prev, i, pdf_files, valid_files,
                   sorted_files, timestamp, output_filename, result, summary>>
    /\ UNCHANGED fsVars
    /\ UNCHANGED mergeVars

\* Line 305.
SortFiles ==
    /\ pc = "dispatch"
    /\ Branch(valid_files) = "sort"
    /\ sorted_files' = sort_files_by_preference(valid_files)
    /\ pc' = "filename"
    /\ UNCHANGED <<output, output_at_start, run, prev, i, pdf_files,
                   valid_files, timestamp, output_filename, result, summary, outcome>>
    /\ UNCHANGED fsVars
    /\ UNCHANGED mergeVars

\* Lines 308-309 and 243-255.
GetOutputFilename ==
    /\ pc = "filename"
    /\ timestamp' = Timestamp(clock)
    /\ output_filename' = OutputName(Timestamp(clock))
    /\ pc' = "m_start"
    /\ UNCHANGED <<output, output_at_start, run, prev, i, pdf_files,
                   valid_files, sorted_files, result, summary, outcome>>
    /\ UNCHANGED fsVars
    /\ UNCHANGED mergeVars

\* -------------------------------------------------------- merge_pdf_files
\* Lines 157-161: a new writer, total_pages = 0, file_info = [].
MergeStart ==
    /\ pc = "m_start"
    /\ writer' = <<>>
    /\ total_pages' = 0
    /\ file_info' = <<>>
    /\ IF sorted_files = <<>>
       THEN pc' = "m_write" /\ i' = 0
       ELSE pc' = "m_open" /\ i' = 1
    /\ UNCHANGED <<output, output_at_start, run, prev, pdf_files, valid_files,
                   sorted_files, timestamp, output_filename, page_count, processed,
                   failed, result, summary, outcome>>
    /\ UNCHANGED fsVars

\* The index the loop goes to when a file is done or skipped (continue).
Break(idx, n) == n + 1
Continue(idx, n) == idx + 1

NextFile ==
    LET nxt == Continue(i, Len(sorted_files))
    IN  IF nxt <= Len(sorted_files)
        THEN pc' = "m_open" /\ i' = nxt
        ELSE pc' = "m_write" /\ i' = 0

\* The pages 1..n of a document, as the writer holds them.
PagesOf(name, n) == [k \in 1..n |-> <<name, k>>]

\* writer.add_page for the pages in range(page_count).
AddPagesFront(w, pages) == pages \o w
AddPages(w, pages) == w \o pages

\* Lines 165-176 and 187-189: open the file and add its pages one by one.
\* A failure to open adds nothing; a page that raises leaves the pages
\* before it in the writer.  Either is logged and the loop continues.
MergeOpen ==
    /\ pc = "m_open"
    /\ LET name == sorted_files[i]
           f == input[name]
       IN  /\ processed' = Append(processed, name)
           /\ IF ~CanOpen(f)
              THEN /\ failed' = Append(failed, <<name, "open">>)
                   /\ writer' = writer
                   /\ page_count' = page_count
                   /\ NextFile
              ELSE IF f.bad # 0
              THEN /\ failed' = Append(failed, <<name, "page">>)
                   /\ writer' = AddPages(writer, PagesOf(name, f.bad - 1))
                   /\ page_count' = f.pages
                   /\ NextFile
              ELSE /\ failed' = failed
                   /\ writer' = AddPages(writer, PagesOf(name, f.pages))
                   /\ page_count' = f.pages
                   /\ pc' = "m_record" /\ i' = i
    /\ UNCHANGED <<output, output_at_start, run, prev, pdf_files, valid_files,
                   sorted_files, timestamp, output_filename, total_pages, file_info,
                   result, summary, outcome>>
    /\ UNCHANGED fsVars

\* Lines 178-189: total_pages += page_count, then the entry of file_info is
\* built, which calls pdf_file.stat(); when that raises the entry is not
\* appended, the failure is logged and the loop continues.
MergeRecord ==
    /\ pc = "m_record"
    /\ LET name == sorted_files[i]
           f == input[name]
       IN  /\ total_pages' = total_pages + page_count
           /\ IF StatRaises(f)
              THEN /\ failed' = Append(failed, <<name, "stat">>)
                   /\ file_info' = file_info
              ELSE /\ failed' = failed
                   /\ file_info' = Append(file_info,
                         [filename |-> name, pages |-> page_count,
                          file_size |-> f.size])
    /\ NextFile
    /\ UNCHANGED <<output, output_at_start, run, prev, pdf_files, valid_files,
                   sorted_files, timestamp, output_filename, writer, page_count,
                   processed, result, summary, outcome>>
    /\ UNCHANGED fsVars

Failure(msg) == [success |-> FALSE, error |-> msg]

\* Lines 209-217.
Success ==
    [success |-> TRUE, output_file |-> output_filename,
     total_pages |-> total_pages, total_files |-> Len(sorted_files),
     file_info |-> file_info]

\* Lines 192-236: the write, then the check that the output exists.  The
\* write raises (the outer handler returns a failure, a truncated file may
\* be left), or it completes; the completed file is found by exists(), or
\* it was removed in between and the failure "Output file not created" is
\* returned.
MergeWrite ==
    /\ pc = "m_write"
    /\ \/ /\ output' = (output_filename :> Merged(writer)) @@ output
          /\ result' = Success
       \/ /\ \E left \in BOOLEAN :
               output' = IF left THEN (output_filename :> Truncated) @@ output
                         ELSE output
          /\ result' = Failure("write raised")
       \/ /\ output' = [n \in DOMAIN output \ {output_filename} |-> output[n]]
          /\ result' = Failure("Output file not created")
    /\ pc' = "summary"
    /\ UNCHANGED <<output_at_start, run, prev, i, pdf_files, valid_files,
                   sorted_files, timestamp, output_filename, summary, outcome>>
    /\ UNCHANGED fsVars
    /\ UNCHANGED mergeVars

\* Line 315 and 317-340.
PrintMergeSummary ==
    /\ pc = "summary"
    /\ summary' = TRUE
    /\ Finish(IF result.success THEN "merged" ELSE "merge_failed")
    /\ UNCHANGED <<output, output_at_start, run, prev, i, pdf_files,
                   valid_files, sorted_files, timestamp, output_filename, result>>
    /\ UNCHANGED fsVars
    /\ UNCHANGED mergeVars

\* The program is started again on the same directories, the input set
\* unchanged since the first run began.
SecondRun ==
    /\ pc = "done"
    /\ run = "first"
    /\ env_changes = 0
    /\ run' = "second"
    /\ prev' = [result |-> result, timestamp |-> timestamp,
                output_filename |-> output_filename]
    /\ pc' = "start"
    /\ i' = 0
    /\ pdf_files' = <<>>
    /\ valid_files' = <<>>
    /\ sorted_files' = <<>>
    /\ timestamp' = 0
    /\ output_filename' = NoName
    /\ writer' = <<>>
    /\ page_count' = 0
    /\ total_pages' = 0
    /\ file_info' = <<>>
    /\ processed' = <<>>
    /\ failed' = <<>>
    /\ result' = NoResult
    /\ summary' = FALSE
    /\ outcome' = "running"
    /\ UNCHANGED <<output, output_at_start>>
    /\ UNCHANGED fsVars

Next ==
    \/ EnvChange
    \/ Tick
    \/ StartDiscovery
    \/ ValidateExists
    \/ ValidateAccess
    \/ ValidateSize
    \/ ValidateOpen
    \/ AbortNoValid
    \/ ChooseCopy
    \/ CopySingle
    \/ SortFiles
    \/ GetOutputFilename
    \/ MergeStart
    \/ MergeOpen
    \/ MergeRecord
    \/ MergeWrite
    \/ PrintMergeSummary
    \/ SecondRun

Spec == Init /\ [][Next]_vars

\* ------------------------------------------------ the ordering policy alone
\* The state in which merge_pdfs reaches line 305 after a discovery that
\* accepted every file of a directory of one-page documents.
SortInit ==
    /\ \E files \in UNION {[1..n -> SortNames] : n \in 2..MaxSortLen} :
         /\ IsInjective(files)
         /\ dir_order = files
         /\ pdf_files = files
         /\ valid_files = files
         /\ input = [n \in SortNames |->
                       IF n \in Range(files) THEN Doc(1, 0) ELSE Missing]
    /\ output = EmptyDir
    /\ output_at_start = EmptyDir
    /\ clock = 0
    /\ env_changes = 0
    /\ run = "first"
    /\ prev = [result |-> NoResult, timestamp |-> 0, output_filename |-> NoName]
    /\ pc = "dispatch"
    /\ i = 0
    /\ sorted_files = <<>>
    /\ timestamp = 0
    /\ output_filename = NoName
    /\ writer = <<>>
    /\ page_count = 0
    /\ total_pages = 0
    /\ file_info = <<>>
    /\ processed = <<>>
    /\ failed = <<>>
    /\ result = NoResult
    /\ summary = FALSE
    /\ outcome = "running"

SortNext == SortFiles

SortSpec == SortInit /\ [][SortNext]_vars

\* ----------------------------------------------------- notions of the claims
InfoPages == [k \in 1..Len(file_info) |-> file_info[k].pages]
InfoNames == [k \in 1..Len(file_info) |-> file_info[k].filename]
FailedNames == {failed[k][1] : k \in 1..Len(failed)}
OpenFailed == {failed[k][1] : k \in {j \in 1..Len(failed) : failed[j][2] = "open"}}
WriterNames == {writer[k][1] : k \in 1..Len(writer)}

Count(s, x) == Cardinality({k \in 1..Len(s) : s[k] = x})
IndexOf(s, x) == CHOOSE k \in 1..Len(s) : s[k] = x

RECURSIVE IsSubsequence(_, _)
IsSubsequence(s, t) ==
    IF s = <<>> THEN TRUE
    ELSE IF t = <<>> THEN FALSE
    ELSE IF Head(s) = Head(t) THEN IsSubsequence(Tail(s), Tail(t))
    ELSE IsSubsequence(s, Tail(t))

\* find_and_validate_pdf_files has returned to merge_pdfs.
DiscoveryReturned ==
    /\ pc \notin {"start", "v_exists", "v_access", "v_stat", "v_open"}
    /\ outcome # "crashed"

\* C1: when merge_pdf_files returns success, the pages held by the writer
\* (and written to the output file) number the sum of the page counts of the
\* documents whose processing step did not raise, and no page of a document
\* whose step raised is among them.
C1_OutputPagesAreThoseOfUnfailedDocuments ==
    IsSuccess(result) =>
        /\ Len(writer) = SumSeq(InfoPages)
        /\ WriterNames \cap FailedNames = {}
        /\ Range(InfoNames) = Range(sorted_files) \ FailedNames

\* C2: the pages in the writer are ordered by the position of their
\* document in the given list and, within a document, by page number; the
\* pages of one document start at its first page and are consecutive, and a
\* document recorded in file_info has all of its pages there.
C2_PagesInDocumentThenPageOrder ==
    /\ \A a, b \in 1..Len(writer) :
         a < b =>
           \/ IndexOf(sorted_files, writer[a][1]) < IndexOf(sorted_files, writer[b][1])
           \/ writer[a][1] = writer[b][1] /\ writer[a][2] < writer[b][2]
    /\ \A a \in 1..Len(writer) :
         IF a > 1 /\ writer[a - 1][1] = writer[a][1]
         THEN writer[a][2] = writer[a - 1][2] + 1
         ELSE writer[a][2] = 1
    /\ \A k \in 1..Len(file_info) :
         Count([a \in 1..Len(writer) |-> writer[a][1]], file_info[k].filename)
             = file_info[k].pages

C2_Witness ==
    /\ IsSuccess(result)
    /\ Cardinality(WriterNames) >= 2
    /\ \E a \in 1..Len(writer) : writer[a][2] = 2 /\ a < Len(writer)

\* C3: the order handed to the merge is a permutation of the discovered
\* valid files, ascending by lower-cased file name, files with equal
\* lower-cased names in their discovery order; B.pdf, a.pdf, C.pdf is
\* processed as a.pdf, B.pdf, C.pdf.
C3_SortedCaseInsensitiveStable ==
    pc = "filename" =>
        /\ Len(sorted_files) = Len(valid_files)
        /\ \A n \in Range(valid_files) \cup Range(sorted_files) :
             Count(sorted_files, n) = Count(valid_files, n)
        /\ \A a, b \in 1..Len(sorted_files) :
             a < b =>
               /\ ~StrLess(LowerName(sorted_files[b]), LowerName(sorted_files[a]))
               /\ LowerName(sorted_files[a]) = LowerName(sorted_files[b]) =>
                    IndexOf(valid_files, sorted_files[a])
                        < IndexOf(valid_files, sorted_files[b])
        /\ valid_files = <<UpperB, LowerA, UpperC>> =>
             sorted_files = <<LowerA, UpperB, UpperC>>

C3_Witness ==
    /\ pc = "filename"
    /\ valid_files = <<UpperB, LowerA, UpperC>>
    /\ sorted_files = <<LowerA, UpperB, UpperC>>

\* The run took the single-file branch and never entered the merge engine.
NoMergeHappened ==
    /\ result = NoResult
    /\ ~summary
    /\ sorted_files = <<>>
    /\ output_filename = NoName
    /\ processed = <<>>
    /\ writer = <<>>

C5_NoValidFileAbortsWithoutOutput ==
    (DiscoveryReturned /\ valid_files = <<>>) =>
        /\ pc \in {"dispatch", "done"}
        /\ pc = "done" => outcome = "no_valid"
        /\ output = output_at_start
        /\ NoMergeHappened

C5_Witness ==
    /\ pc = "done"
    /\ outcome = "no_valid"
    /\ Len(pdf_files) >= 2

\* C6: a document that does not open in the merge pass adds nothing to
\* total_pages, file_info or the writer, the loop goes on to every
\* remaining document in order, and a failure result, if any, comes from
\* the write or the check of the output, never from that document.
C6_OpenFailureSkipsOnlyThatFile ==
    /\ [](  (result # NoResult /\ OpenFailed # {}) =>
              /\ processed = sorted_files
              /\ OpenFailed \cap Range(InfoNames) = {}
              /\ OpenFailed \cap WriterNames = {}
              /\ \/ result.success
                 \/ result.error \in {"write raised", "Output file not created"}
              /\ result.success => result.file_info = file_info  )
    /\ [][ (pc = "m_open" /\ ~CanOpen(input[sorted_files[i]])) =>
              /\ total_pages' = total_pages
              /\ file_info' = file_info
              /\ writer' = writer
              /\ pc' \in {"m_open", "m_write"} ]_vars

C6_Witness ==
    /\ IsSuccess(result)
    /\ result.total_pages >= 1
    /\ \E k \in 1..(Len(sorted_files) - 1) : sorted_files[k] \in OpenFailed

\* Both runs of the program merged and returned success.
BothRunsMerged ==
    /\ run = "second"
    /\ IsSuccess(prev.result)
    /\ IsSuccess(result)

\* C7 as stated: two runs on the same unchanged input set produce two
\* distinct output files with identical page counts and per-file orderings.
C7_RerunNeverOverwrites ==
    BothRunsMerged =>
        /\ prev.output_filename # output_filename
        /\ prev.result.total_pages = result.total_pages
        /\ prev.result.file_info = result.file_info

\* C7 as amended: two runs on the same unchanged input set return identical
\* page counts and per-file orderings; their output files are distinct, both
\* present and page for page equal, when the two file names are generated in
\* different wall-clock seconds, and the second run overwrites the output of
\* the first when they are generated within the same second.
C7_RerunDistinctWhenSecondsDiffer ==
    BothRunsMerged =>
        /\ prev.result.total_pages = result.total_pages
        /\ prev.result.file_info = result.file_info
        /\ prev.timestamp # timestamp =>
             /\ prev.output_filename # output_filename
             /\ {prev.output_filename, output_filename} \subseteq DOMAIN output
             /\ output[prev.output_filename] = output[output_filename]
        /\ prev.timestamp = timestamp =>
             /\ prev.output_filename = output_filename
             /\ output[output_filename] = Merged(writer)

C7_Witness ==
    /\ BothRunsMerged
    /\ prev.timestamp # timestamp
    /\ result.total_pages >= 2

\* C8: discovery never aborts: whatever happens to a candidate, also when
\* it disappears between the enumeration and its checks,
\* find_and_validate_pdf_files returns normally with exactly the candidates
\* that passed every predicate.
C8_DiscoveryNeverAborts ==
    /\ outcome # "crashed"
    /\ DiscoveryReturned => IsSubsequence(valid_files, pdf_files)

\* C9: every entry of file_info in a success result has a page count of at
\* least one.
C9_NoZeroPageEntry ==
    IsSuccess(result) =>
        \A k \in 1..Len(result.file_info) : result.file_info[k].pages >= 1

\* C10: in a success result total_pages is the sum of the pages fields of
\* file_info, file_info lists file names as a subsequence of the given
\* order, and a document is in file_info exactly when its pages were
\* counted in total_pages.
C10_TotalPagesMatchesFileInfo ==
    IsSuccess(result) =>
        /\ result.total_pages = SumSeq(InfoPages)
        /\ IsSubsequence(InfoNames, sorted_files)
        /\ result.file_info = file_info

====
